---- MODULE Spec2Model ----
(***************************************************************************)
(* Z8000 emulator core: the interrupt/trap unit, reset and the execution   *)
(* loop of z8002_device / z8001_device (src/src/z8000.cpp) over the flat   *)
(* MemoryRegion of src/src/memory.h.                                       *)
(*                                                                         *)
(* A machine value s is a record holding the fields of the device (named   *)
(* as in the source without the m_ prefix), the byte array of the memory   *)
(* region (data) and the list of bus and control events of the call being  *)
(* evaluated (bus).  Every C++ function is an operator from machine to     *)
(* machine.  z8000.h, z8000cpu.h, z8000ops.hxx and z8000tbl.hxx are not    *)
(* part of the sources at hand: what they contribute (flag bits, vector    *)
(* offsets, CHANGE_FCW, PUSHW/PUSHL, the opcode handlers and their cycle   *)
(* counts, the input lines) is modelled from the specification text.       *)
(***************************************************************************)
EXTENDS Integers, Sequences, FiniteSets, TLC

VARIABLES
    segmented,  \* TRUE: a z8001_device was constructed, FALSE: a z8002_device
    cpu,        \* the fields of the device
    data,       \* MemoryRegion::m_data, address -> byte (absent = 0, as after clear())
    inrun,      \* TRUE while control is inside the do/while loop of run()
    last,       \* what the last call did (observation only)
    raiser,     \* per internal trap, m_op[0] of the last instruction that raised it
    calls,      \* number of calls and loop iterations made so far
    unit        \* a unit of the device exercised on its own (see UnitSpec)

vars == <<segmented, cpu, data, inrun, last, raiser, calls, unit>>

-----------------------------------------------------------------------------
(* Bounds of the exploration *)

\* calls of reset(), step() and run() and iterations of the loop of run()
\* explored from construction
MaxCalls == 4

\* the word index at which the images put the program, and the one at which
\* they put the handler every vector names
ProgWord == 64
HandlerWord == 96

\* register writes in a row, and repeated calls for one operand, that are
\* explored
MaxWrites == 2

\* the largest opcode value and the longest authoring table of the dispatch
\* table that are explored
MaxOp == 2
MaxTable == 3

-----------------------------------------------------------------------------
(* Flag/control word bits, request causes, vector offsets                  *)

F_SEG == 32768
F_S_N == 16384
F_VIE == 4096
F_NVIE == 2048

\* the zero, sign and parity/overflow flags
F_Z == 64
F_S == 32
F_PV == 16

W16 == 2^16

CLEAR_LINE == 0
ASSERT_LINE == 1

Causes == {"RESET", "EPU", "TRAP", "SYSCALL", "SEGTRAP", "NMI", "NVI", "VI"}

\* mask has one bit set; Has is (x & mask) != 0
Has(x, mask) == (x \div mask) % 2 = 1

\* x | mask, mask a single bit
Or1(x, mask) == IF Has(x, mask) THEN x ELSE x + mask

\* x & ~1
Even(x) == x - (x % 2)

Hi(w) == (w \div 256) % 256
Lo(w) == w % 256

-----------------------------------------------------------------------------
(* MemoryRegion (memory.h)                                                 *)

\* size of the region the front end creates for the device
MemSize == IF segmented THEN 8388608 ELSE 65536

Byte(d, a) == IF a \in DOMAIN d THEN d[a] ELSE 0

Poke(d, a, b) == [x \in (DOMAIN d) \cup {a} |-> IF x = a THEN b ELSE d[x]]

read_word(d, addr) ==
    LET a == Even(addr % MemSize)
    IN  Byte(d, a) * 256 + Byte(d, a + 1)

write_word(d, addr, val) ==
    LET a == Even(addr % MemSize)
    IN  Poke(Poke(d, a, Hi(val)), a + 1, Lo(val))

\* x & y on 16-bit words
RECURSIVE And16(_, _)
And16(x, y) ==
    IF x = 0 \/ y = 0 THEN 0
    ELSE (x % 2) * (y % 2) + 2 * And16(x \div 2, y \div 2)

\* write_word(addr, val, mask): only the bits set in mask are updated
write_word_masked(d, addr, val, mask) ==
    LET a        == Even(addr % MemSize)
        existing == read_word(d, a)
        new_val  == And16(existing, 65535 - mask) + And16(val, mask)
    IN  Poke(Poke(d, a, Hi(new_val)), a + 1, Lo(new_val))

-----------------------------------------------------------------------------
(* Address helpers of the device                                           *)

get_segmented_mode(s) == segmented /\ Has(s.fcw, F_SEG)

addr_add(addr, addend) == (addr - (addr % W16)) + ((addr + addend) % W16)

\* A 32-bit long is the pair <<high word, low word>>.

\* (addr & 0x7f000000) >> 8 | (addr & 0xffff)
segmented_addr(l) == ((l[1] \div 256) % 128) * W16 + l[2]

\* ((addr & 0x007f0000) << 8) | 0x80000000 | (addr & 0xffff)
make_segmented_addr(a) == <<((a \div W16) % 128) * 256 + 32768, a % W16>>

\* the adjustment of the Z8002 on either device
adjust_addr_for_nonseg_modeZ8002(s, addr) == addr

adjust_addr_for_nonseg_mode(s, addr) ==
    IF segmented /\ ~Has(s.fcw, F_SEG)
    THEN (addr % W16) + (((s.pc \div W16) % 128) * W16)
    ELSE addr

Ev(s, e) == [s EXCEPT !.bus = Append(@, e)]

\* space.read_byte(adjust_addr_for_nonseg_mode(addr))
RDMEM_B(s, addr) ==
    LET a == adjust_addr_for_nonseg_mode(s, addr)
    IN  Ev(s, [op |-> "R", addr |-> a, val |-> Byte(s.data, a % MemSize)])

\* the value RDMEM_W returns, and the machine after the read
RDMEM_W_addr(s, addr) == Even(adjust_addr_for_nonseg_mode(s, addr))
RDMEM_W_val(s, addr) == read_word(s.data, RDMEM_W_addr(s, addr))
RDMEM_W(s, addr) ==
    Ev(s, [op |-> "R", addr |-> RDMEM_W_addr(s, addr), val |-> RDMEM_W_val(s, addr)])

RDMEM_L_val(s, addr) ==
    LET a == RDMEM_W_addr(s, addr)
    IN  <<read_word(s.data, a), read_word(s.data, addr_add(a, 2))>>
RDMEM_L(s, addr) ==
    LET a == RDMEM_W_addr(s, addr)
    IN  Ev(Ev(s, [op |-> "R", addr |-> a, val |-> read_word(s.data, a)]),
           [op |-> "R", addr |-> addr_add(a, 2),
            val |-> read_word(s.data, addr_add(a, 2))])

\* a byte write whose mask selects the other half of the word
WRMEM_BOtherHalf(s, addr, value) ==
    LET a       == adjust_addr_for_nonseg_mode(s, addr)
        value16 == value + value * 256
        mask    == IF a % 2 = 1 THEN 65280 ELSE 255
    IN  Ev([s EXCEPT !.data = write_word_masked(@, Even(a), value16, mask)],
           [op |-> "W", addr |-> Even(a), val |-> value16])

\* space.write_word(addr & ~1, value | (value << 8), BIT(addr, 0) ? 0x00ff : 0xff00)
WRMEM_B(s, addr, value) ==
    LET a       == adjust_addr_for_nonseg_mode(s, addr)
        value16 == value + value * 256
        mask    == IF a % 2 = 1 THEN 255 ELSE 65280
    IN  Ev([s EXCEPT !.data = write_word_masked(@, Even(a), value16, mask)],
           [op |-> "W", addr |-> Even(a), val |-> value16])

WRMEM_W(s, addr, value) ==
    LET a == Even(adjust_addr_for_nonseg_mode(s, addr))
    IN  Ev([s EXCEPT !.data = write_word(@, a, value)],
           [op |-> "W", addr |-> a, val |-> value])

WRMEM_L(s, addr, value) ==
    LET a  == Even(adjust_addr_for_nonseg_mode(s, addr))
        s1 == Ev([s EXCEPT !.data = write_word(@, a, value[1])],
                 [op |-> "W", addr |-> a, val |-> value[1]])
    IN  Ev([s1 EXCEPT !.data = write_word(@, addr_add(a, 2), value[2])],
           [op |-> "W", addr |-> addr_add(a, 2), val |-> value[2]])

-----------------------------------------------------------------------------
(* Flag/control word and stack helpers (z8000cpu.h, z8000ops.hxx)          *)

\* A change of the S_N bit exchanges the stack pointer registers with the
\* normal-mode shadow nsp; a line that is asserted when its enable bit goes
\* from 0 to 1 becomes a pending request.
CHANGE_FCW(s, fcw) ==
    LET swap == Has(fcw, F_S_N) # Has(s.fcw, F_S_N)
        regs == IF ~swap THEN s.regs
                ELSE IF segmented
                THEN [s.regs EXCEPT ![15] = s.nspoff, ![14] = s.nspseg]
                ELSE [s.regs EXCEPT ![15] = s.nspoff]
        nvi  == IF ~Has(s.fcw, F_NVIE) /\ Has(fcw, F_NVIE)
                   /\ s.irq_state[1] # CLEAR_LINE THEN {"NVI"} ELSE {}
        vi   == IF ~Has(s.fcw, F_VIE) /\ Has(fcw, F_VIE)
                   /\ s.irq_state[2] # CLEAR_LINE THEN {"VI"} ELSE {}
    IN  Ev([s EXCEPT !.regs = regs,
                     !.nspoff = IF swap THEN s.regs[15] ELSE @,
                     !.nspseg = IF swap /\ segmented THEN s.regs[14] ELSE @,
                     !.irq_req = @ \cup nvi \cup vi,
                     !.fcw = fcw],
           [op |-> "FCW", addr |-> 0, val |-> fcw])

\* the address the stack pointer register (pair) designates
addr_from_sp(s) ==
    IF get_segmented_mode(s)
    THEN segmented_addr(<<s.regs[14], s.regs[15]>>)
    ELSE s.regs[15]

PUSHW(s, value) ==
    LET s1 == [s EXCEPT !.regs[15] = (@ - 2) % W16]
    IN  WRMEM_W(s1, addr_from_sp(s1), value)

PUSHL(s, value) ==
    LET s1 == [s EXCEPT !.regs[15] = (@ - 4) % W16]
    IN  WRMEM_L(s1, addr_from_sp(s1), value)

\* offsets of the program status area entries, before the vector multiplier
VecOffset(c) ==
    CASE c = "EPU" -> 4 [] c = "TRAP" -> 8 [] c = "SYSCALL" -> 12
      [] c = "SEGTRAP" -> 16 [] c = "NMI" -> 20 [] c = "NVI" -> 24
      [] c = "VI" -> 28 [] c = "VEC00" -> 30

-----------------------------------------------------------------------------
(* The interrupt/trap unit (z8000.cpp)                                     *)

PUSH_PC(s) ==
    IF segmented THEN PUSHL(s, make_segmented_addr(s.pc)) ELSE PUSHW(s, s.pc % W16)

SetPC(s, v) == Ev([s EXCEPT !.pc = v], [op |-> "PC", addr |-> 0, val |-> v])

GET_PC_addr(VEC) == IF segmented THEN VEC + 4 ELSE VEC + 2

\* m_pc = GET_PC(VEC)
LoadPC(s, VEC) ==
    IF segmented
    THEN SetPC(RDMEM_L(s, VEC + 4), segmented_addr(RDMEM_L_val(s, VEC + 4)))
    ELSE SetPC(RDMEM_W(s, VEC + 2), RDMEM_W_val(s, VEC + 2))

\* m_pc = get_reset_pc()
get_reset_pc(s) ==
    IF segmented
    THEN SetPC(RDMEM_L(s, 4), segmented_addr(RDMEM_L_val(s, 4)))
    ELSE SetPC(RDMEM_W(s, 4), RDMEM_W_val(s, 4))

GET_FCW_addr(VEC) == IF segmented THEN VEC + 2 ELSE VEC

\* CHANGE_FCW(GET_FCW(VEC))
LoadFCW(s, VEC) ==
    CHANGE_FCW(RDMEM_W(s, GET_FCW_addr(VEC)), RDMEM_W_val(s, GET_FCW_addr(VEC)))

F_SEG_Z8001 == IF segmented THEN F_SEG ELSE 0

PSA_ADDR(s) ==
    IF segmented THEN segmented_addr(<<s.psapseg, s.psapoff>>) ELSE s.psapoff

Vec(s, c) == PSA_ADDR(s) + s.vector_mult * VecOffset(c)

\* m_pc = read_irq_vector()
read_irq_vector(s) ==
    LET a == Vec(s, "VEC00") + 2 * (s.irq_vec % 256)
    IN  IF segmented
        THEN SetPC(RDMEM_L(s, a), segmented_addr(RDMEM_L_val(s, a)))
        ELSE SetPC(RDMEM_W(s, a), RDMEM_W_val(s, a))

\* the order of the if / else-if chain
Priority == <<"RESET", "EPU", "TRAP", "SYSCALL", "SEGTRAP", "NMI", "NVI", "VI">>

\* a chain that tests the pending bits only (no enable bit of FCW)
BranchTakenUnmasked(s, c) == c \in s.irq_req

\* the condition of the branch of cause c
BranchTaken(s, c) ==
    /\ c \in s.irq_req
    /\ c = "NVI" => Has(s.fcw, F_NVIE)
    /\ c = "VI" => Has(s.fcw, F_VIE)

\* a chain whose NVI branch stands before its NMI branch
ChosenNviFirst(s) ==
    LET order == <<"RESET", "EPU", "TRAP", "SYSCALL", "SEGTRAP", "NVI", "NMI", "VI">>
        taken(c) == /\ c \in s.irq_req
                    /\ c = "NVI" => Has(s.fcw, F_NVIE)
                    /\ c = "VI" => Has(s.fcw, F_VIE)
    IN  IF \E i \in 1..Len(order) : taken(order[i])
        THEN order[CHOOSE i \in 1..Len(order) :
                     /\ taken(order[i])
                     /\ \A j \in 1..(i - 1) : ~taken(order[j])]
        ELSE "none"

\* the branch the chain enters: the first whose condition holds, or "none"
Chosen(s) ==
    IF \E i \in 1..Len(Priority) : BranchTaken(s, Priority[i])
    THEN Priority[CHOOSE i \in 1..Len(Priority) :
                    /\ BranchTaken(s, Priority[i])
                    /\ \A j \in 1..(i - 1) : ~BranchTaken(s, Priority[j])]
    ELSE "none"

\* a context save that pushes the FCW before the PC
SaveContextFcwFirst(s, fcw, tag) ==
    LET f1 == IF segmented THEN Or1(Or1(fcw, F_S_N), F_SEG) ELSE Or1(fcw, F_S_N)
    IN  PUSHW(PUSH_PC(PUSHW(CHANGE_FCW(s, f1), fcw)), tag)

\* CHANGE_FCW(fcw | F_S_N | F_SEG_Z8001()); PUSH_PC(); PUSHW(SP, fcw); PUSHW(SP, tag)
SaveContext(s, fcw, tag) ==
    LET f1 == IF segmented THEN Or1(Or1(fcw, F_S_N), F_SEG) ELSE Or1(fcw, F_S_N)
    IN  PUSHW(PUSHW(PUSH_PC(CHANGE_FCW(s, f1)), fcw), tag)

\* a branch that clears the whole request word
DropAll(s, c) == [s EXCEPT !.irq_req = {}]

Drop(s, c) == [s EXCEPT !.irq_req = @ \ {c}]

\* a reset branch that leaves the other pending requests as they are
ServiceResetKeepsRequests(s) ==
    get_reset_pc(CHANGE_FCW(RDMEM_W(s, 2), RDMEM_W_val(s, 2)))

ServiceReset(s) ==
    LET s1 == [s EXCEPT !.irq_req = @ \cap {"NVI", "VI"}]
        s2 == CHANGE_FCW(RDMEM_W(s1, 2), RDMEM_W_val(s1, 2))
    IN  get_reset_pc(s2)

\* internal trap branches that push m_irq_vec as the tag
ServiceInternalTagVec(s, c) ==
    LET s1 == SaveContext(s, s.fcw, s.irq_vec)
    IN  LoadPC(LoadFCW(Drop(s1, c), Vec(s, c)), Vec(s, c))

\* the EPU, TRAP and SYSCALL branches
ServiceInternal(s, c) ==
    LET s1 == SaveContext(s, s.fcw, s.op[1])
    IN  LoadPC(LoadFCW(Drop(s1, c), Vec(s, c)), Vec(s, c))

ServiceSegtrap(s) ==
    LET s0 == [s EXCEPT !.irq_vec = 0]
        s1 == SaveContext(s0, s.fcw, s0.irq_vec)
    IN  LoadPC(LoadFCW(Drop(s1, "SEGTRAP"), Vec(s, "SEGTRAP")), Vec(s, "SEGTRAP"))

ServiceNMI(s) ==
    LET s0 == [s EXCEPT !.irq_vec = 0, !.halt = FALSE]
        s1 == SaveContext(s0, s.fcw, s0.irq_vec)
        s2 == SetPC(RDMEM_W(s1, Vec(s, "NMI")), RDMEM_W_val(s1, Vec(s, "NMI")))
    IN  LoadPC(LoadFCW(Drop(s2, "NMI"), Vec(s, "NMI")), Vec(s, "NMI"))

ServiceNVI(s) ==
    LET s0 == [s EXCEPT !.irq_vec = 0, !.halt = FALSE]
        s1 == SaveContext(s0, s.fcw, s0.irq_vec)
        s2 == LoadPC(s1, Vec(s, "NVI"))
    IN  LoadFCW(Drop(s2, "NVI"), Vec(s, "NVI"))

ServiceVI(s) ==
    LET s0 == [s EXCEPT !.irq_vec = 0, !.halt = FALSE]
        s1 == SaveContext(s0, s.fcw, s0.irq_vec)
        s2 == read_irq_vector(s1)
    IN  LoadFCW(Drop(s2, "VI"), Vec(s, "VI"))

Interrupt(s) ==
    LET c == Chosen(s)
    IN  CASE c = "RESET" -> ServiceReset(s)
          [] c \in {"EPU", "TRAP", "SYSCALL"} -> ServiceInternal(s, c)
          [] c = "SEGTRAP" -> ServiceSegtrap(s)
          [] c = "NMI" -> ServiceNMI(s)
          [] c = "NVI" -> ServiceNVI(s)
          [] c = "VI" -> ServiceVI(s)
          [] OTHER -> s

-----------------------------------------------------------------------------
(* Operand fetch (z8000.cpp)                                               *)

\* m_op[k] of the source is op[k + 1]; irq_state[k] is irq_state[k + 1]

\* the bus adaptor may post a segmentation trap while it serves the access
\* (segmented variant only)
PostSegtrap(s, segt) ==
    IF segt /\ segmented THEN [s EXCEPT !.irq_req = @ \cup {"SEGTRAP"}] ELSE s

\* m_op[0] = RDOP(); m_pc is 32 bits wide and stays far below 2^32 here
RDOP(s, segt) ==
    LET w == read_word(s.data, s.pc)
    IN  PostSegtrap(Ev([s EXCEPT !.op[1] = w, !.pc = @ + 2],
                       [op |-> "F", addr |-> s.pc, val |-> w]), segt)

\* an operand fetch that does not mark the slot valid
get_operandNoMark(s, opnum) ==
    IF ~Has(s.op_valid, 2^opnum)
    THEN LET w == read_word(s.data, s.pc)
         IN  Ev([s EXCEPT !.op[opnum + 1] = w, !.pc = @ + 2],
                [op |-> "F", addr |-> s.pc, val |-> w])
    ELSE s

get_operand(s, opnum) ==
    IF ~Has(s.op_valid, 2^opnum)
    THEN LET w == read_word(s.data, s.pc)
         IN  Ev([s EXCEPT !.op[opnum + 1] = w,
                          !.pc = @ + 2,
                          !.op_valid = @ + 2^opnum],
                [op |-> "F", addr |-> s.pc, val |-> w])
    ELSE s

\* an address operand fetch that takes every first word for a long address
get_addr_operandAlwaysLong(s, opnum) ==
    IF ~Has(s.op_valid, 2^opnum)
    THEN LET seg == read_word(s.data, s.pc)
             s1  == Ev([s EXCEPT !.pc = @ + 2], [op |-> "F", addr |-> s.pc, val |-> seg])
             w2  == read_word(s1.data, s1.pc)
             s2  == IF get_segmented_mode(s1)
                    THEN Ev([s1 EXCEPT !.op[opnum + 1] = ((seg \div 256) % 128) * W16 + w2,
                                       !.pc = @ + 2],
                            [op |-> "F", addr |-> s1.pc, val |-> w2])
                    ELSE [s1 EXCEPT !.op[opnum + 1] = seg]
         IN  [s2 EXCEPT !.op_valid = @ + 2^opnum]
    ELSE s

\* m_op[opnum] holds the address: ((seg & 0x7f00) << 8) | second word or
\* (seg & 0xff) in segmented mode, the word itself otherwise
get_addr_operand(s, opnum) ==
    IF ~Has(s.op_valid, 2^opnum)
    THEN LET seg == read_word(s.data, s.pc)
             s1  == Ev([s EXCEPT !.pc = @ + 2], [op |-> "F", addr |-> s.pc, val |-> seg])
             w2  == read_word(s1.data, s1.pc)
             s2  == IF get_segmented_mode(s1)
                    THEN IF Has(seg, 32768)
                         THEN Ev([s1 EXCEPT !.op[opnum + 1] =
                                              ((seg \div 256) % 128) * W16 + w2,
                                            !.pc = @ + 2],
                                 [op |-> "F", addr |-> s1.pc, val |-> w2])
                         ELSE [s1 EXCEPT !.op[opnum + 1] =
                                           ((seg \div 256) % 128) * W16 + (seg % 256)]
                    ELSE [s1 EXCEPT !.op[opnum + 1] = seg]
         IN  [s2 EXCEPT !.op_valid = @ + 2^opnum]
    ELSE s

-----------------------------------------------------------------------------
(* The instructions the model executes (z8000ops.hxx, z8000tbl.hxx)        *)

NOP == 36103        \* 8D07
HALT == 31232       \* 7A00
MSET == 31496       \* 7B08
SC == 32513         \* 7F01 (SC #1)
EXT == 36352        \* 8E00 (extended instruction)
LDSP == 8463        \* 210F (LD R15,#imm16)
JRSELF == 59647     \* E8FF (JR $)
LDCTLR == 32251     \* 7DFB (LDCTL REFRESH,R15)

Decoded == {NOP, HALT, MSET, SC, EXT, LDSP, JRSELF, LDCTLR}

\* the cycle count of the dispatch entry of an opcode
Cycles(w) ==
    CASE w = NOP -> 7 [] w = HALT -> 8 [] w = MSET -> 7 [] w = SC -> 33
      [] w = EXT -> 10 [] w = LDSP -> 7 [] w = JRSELF -> 6 [] w = LDCTLR -> 7
      [] OTHER -> 0

Raise(s, c) == [s EXCEPT !.irq_req = @ \cup {c}]

\* (this->*exec.opcode)() for the opcode in m_op[0]
Handler(s) ==
    LET w == s.op[1]
        sys == Has(s.fcw, F_S_N)
    IN  CASE w = NOP -> s
          [] w = HALT -> IF sys THEN [s EXCEPT !.halt = TRUE] ELSE Raise(s, "TRAP")
          [] w = MSET -> IF sys THEN [s EXCEPT !.mi = ASSERT_LINE] ELSE Raise(s, "TRAP")
          [] w = SC -> Raise(s, "SYSCALL")
          [] w = EXT -> Raise(s, "EPU")
          [] w = LDSP -> LET s1 == get_operand(s, 1)
                         IN  [s1 EXCEPT !.regs[15] = s1.op[2]]
          [] w = JRSELF -> [s EXCEPT !.pc = addr_add(@, -2)]
          [] w = LDCTLR -> IF sys THEN [s EXCEPT !.refresh = s.regs[15]]
                           ELSE Raise(s, "TRAP")
          [] OTHER -> s

-----------------------------------------------------------------------------
(* reset, step and run (z8000.cpp)                                         *)

clear_internal_state(s) ==
    [s EXCEPT !.op = <<0, 0, 0, 0>>,
              !.ppc = 0, !.pc = 0, !.psapseg = 0, !.psapoff = 0, !.fcw = 0,
              !.refresh = 0, !.nspseg = 0, !.nspoff = 0,
              !.irq_req = {}, !.irq_vec = 0, !.op_valid = 0,
              !.regs = [r \in 0..15 |-> 0],
              !.nmi_state = 0, !.irq_state = <<0, 0>>,
              !.halt = FALSE, !.total_cycles = 0]

\* a reset() that leaves m_mi as it is
resetKeepsMi(s) ==
    LET s1 == clear_internal_state(s)
    IN  [s1 EXCEPT !.irq_req = @ \cup {"RESET"},
                   !.refresh = @ % 32768,
                   !.halt = FALSE]

\* a reset() that services the RESET request itself
resetEager(s) ==
    LET s1 == clear_internal_state(s)
    IN  Interrupt([s1 EXCEPT !.irq_req = @ \cup {"RESET"},
                             !.refresh = @ % 32768,
                             !.halt = FALSE,
                             !.mi = CLEAR_LINE])

reset(s) ==
    LET s1 == clear_internal_state(s)
    IN  [s1 EXCEPT !.irq_req = @ \cup {"RESET"},
                   !.refresh = @ % 32768,
                   !.halt = FALSE,
                   !.mi = CLEAR_LINE]

\* if (m_irq_req) Interrupt();
ServiceIfPending(s) == IF s.irq_req # {} THEN Interrupt(s) ELSE s

\* the event that marks the entry of a handler: op_valid and the opcode
Enter(s) == Ev(s, [op |-> "X", addr |-> s.op_valid, val |-> s.op[1]])

\* a step() that does not account the cycles of the instruction
StepExecuteNoCycles(s, segt) ==
    LET s1 == [RDOP([s EXCEPT !.ppc = s.pc], segt) EXCEPT !.op_valid = 1]
    IN  [Handler(Enter(s1)) EXCEPT !.op_valid = 0]

\* step(), from m_ppc = m_pc to m_op_valid = 0
StepExecute(s, segt) ==
    LET s1 == [RDOP([s EXCEPT !.ppc = s.pc], segt) EXCEPT !.op_valid = 1]
        s2 == [s1 EXCEPT !.total_cycles = @ + Cycles(s1.op[1])]
    IN  [Handler(Enter(s2)) EXCEPT !.op_valid = 0]

step(s, segt) ==
    IF ~s.program_bus \/ ~s.io_bus THEN s
    ELSE LET s1 == ServiceIfPending(s)
         IN  IF s1.halt THEN s1 ELSE StepExecute(s1, segt)

\* the value step() returns
step_ret(s, segt) ==
    IF ~s.program_bus \/ ~s.io_bus THEN -1
    ELSE LET s1 == ServiceIfPending(s)
         IN  IF s1.halt THEN 0 ELSE Cycles(read_word(s1.data, s1.pc))

\* a run() that sets the budget before it looks at the buses
run_enterNoGuard(s, max_cycles) ==
    [s EXCEPT !.icount = IF max_cycles < 0 THEN 1000000 ELSE max_cycles]

\* run(): the guards and m_icount = (max_cycles < 0) ? 1000000 : max_cycles
run_enter(s, max_cycles) ==
    IF ~s.program_bus \/ ~s.io_bus THEN s
    ELSE [s EXCEPT !.icount = IF max_cycles < 0 THEN 1000000 ELSE max_cycles]

\* a loop body that leaves m_op_valid as the handler left it
RunExecuteKeepsValid(s, segt) ==
    LET s1 == [RDOP(s, segt) EXCEPT !.op_valid = 1]
        s2 == [s1 EXCEPT !.icount = @ - Cycles(s1.op[1]),
                         !.total_cycles = @ + Cycles(s1.op[1])]
    IN  Handler(Enter(s2))

\* a loop body that does not charge the instruction to the budget
RunExecuteNoBudget(s, segt) ==
    LET s1 == [RDOP(s, segt) EXCEPT !.op_valid = 1]
        s2 == [s1 EXCEPT !.total_cycles = @ + Cycles(s1.op[1])]
    IN  [Handler(Enter(s2)) EXCEPT !.op_valid = 0]

\* run(): the else branch of if (m_halt)
RunExecute(s, segt) ==
    LET s1 == [RDOP(s, segt) EXCEPT !.op_valid = 1]
        s2 == [s1 EXCEPT !.icount = @ - Cycles(s1.op[1]),
                         !.total_cycles = @ + Cycles(s1.op[1])]
    IN  [Handler(Enter(s2)) EXCEPT !.op_valid = 0]

\* a loop body that leaves the budget as it is when the CPU is halted
run_bodyKeepsBudget(s, segt) ==
    LET s1 == ServiceIfPending(s)
        s2 == [s1 EXCEPT !.ppc = s1.pc]
    IN  IF s2.halt THEN s2 ELSE RunExecute(s2, segt)

\* run(): one pass through the body of the do/while loop
run_body(s, segt) ==
    LET s1 == ServiceIfPending(s)
        s2 == [s1 EXCEPT !.ppc = s1.pc]
    IN  IF s2.halt THEN [s2 EXCEPT !.icount = 0] ELSE RunExecute(s2, segt)

\* run(): the condition of the do/while loop
run_again(s) == s.icount > 0 /\ ~s.halt

-----------------------------------------------------------------------------
(* Construction and the memory images the front end loads                  *)

\* z8002_device::z8002_device / z8001_device::z8001_device
Constructed ==
    [ppc |-> 0, pc |-> 0, psapseg |-> 0, psapoff |-> 0, fcw |-> 0, refresh |-> 0,
     nspseg |-> 0, nspoff |-> 0, irq_req |-> {}, irq_vec |-> 0, op_valid |-> 0,
     op |-> <<0, 0, 0, 0>>, regs |-> [r \in 0..15 |-> 0],
     nmi_state |-> 0, irq_state |-> <<0, 0>>, mi |-> 0, halt |-> FALSE,
     icount |-> 0, total_cycles |-> 0,
     vector_mult |-> IF segmented THEN 2 ELSE 1,
     program_bus |-> FALSE, io_bus |-> FALSE]

\* a machine value from the device and the memory, with no events yet
Mach(c, d) == c @@ [data |-> d, bus |-> <<>>]

CpuOf(s) == [f \in DOMAIN Constructed |-> s[f]]

ProgAt == 2 * ProgWord
HandlerAt == 2 * HandlerWord

WordsAt(base, ws) == {<<base + 2 * (i - 1), ws[i]>> : i \in 1..Len(ws)}

\* the reset vector: FCW at 2, PC at 4 (a long segmented address on the Z8001)
ResetVector(rfcw, rseg, rpc) ==
    IF segmented
    THEN {<<2, rfcw>>, <<4, 32768 + rseg * 256>>, <<6, rpc>>}
    ELSE {<<2, rfcw>>, <<4, rpc>>}

\* the status area at address 0: every entry holds vfcw and the handler address
VectorOf(c, vfcw) ==
    LET v == (IF segmented THEN 2 ELSE 1) * VecOffset(c)
        p == IF c = "VI" THEN (IF segmented THEN 2 ELSE 1) * VecOffset("VEC00")
             ELSE GET_PC_addr(v)
    IN  {<<GET_FCW_addr(v), vfcw>>} \cup
        (IF segmented THEN {<<p, 32768>>, <<p + 2, HandlerAt>>} ELSE {<<p, HandlerAt>>})

Vectors(vfcw) == UNION {VectorOf(c, vfcw) : c \in Causes \ {"RESET"}}

\* the bytes of an image; where two entries name one address the reset vector wins
Image(rfcw, rseg, rpc, vfcw, prog, hprog) ==
    LET first == ResetVector(rfcw, rseg, rpc)
        rest  == Vectors(vfcw) \cup WordsAt(rseg * W16 + ProgAt, prog)
                   \cup WordsAt(HandlerAt, hprog)
        word(a) == IF \E p \in first : p[1] = a
                   THEN (CHOOSE p \in first : p[1] = a)[2]
                   ELSE (CHOOSE p \in rest : p[1] = a)[2]
        addrs == {p[1] : p \in first \cup rest}
    IN  [b \in UNION {{a, a + 1} : a \in addrs} |->
            IF b % 2 = 0 THEN Hi(word(b)) ELSE Lo(word(b - 1))]

Programs ==
    { <<LDSP, 512, SC, JRSELF>>,
      <<MSET, EXT, HALT>> }

HandlerProgram == <<NOP, HALT>>

\* normal mode; system mode with VIE and NVIE
ResetFcws == {0, F_S_N + F_VIE + F_NVIE}

\* system mode; normal mode with NVIE
VectorFcws == {F_S_N, F_NVIE}

\* on the Z8001 one of the reset FCW and the vector FCW has SEG set
SegBit == IF segmented THEN {0, F_SEG} ELSE {0}
OtherSegBit(sb) == IF segmented THEN F_SEG - sb ELSE 0

\* an image whose first instruction is HALT, in system mode
HaltImage == Image(F_S_N, 0, ProgAt, F_S_N, <<HALT>>, HandlerProgram)

\* an image that loads 8001 (enable bit set, count 1) into the refresh
\* register and goes on with a NOP
RefreshImage ==
    Image(F_S_N, 0, ProgAt, F_S_N, <<LDSP, 32769, LDCTLR, NOP>>, HandlerProgram)

\* an image whose program is a jump to itself
SpinImage == Image(F_S_N, 0, ProgAt, F_S_N, <<JRSELF>>, HandlerProgram)

\* an image whose entry point is the last word of the address space: offset
\* FFFE (of segment 127 on the Z8001), holding a NOP
TopSeg == IF segmented THEN 127 ELSE 0
TopImage ==
    ((TopSeg * W16 + 65534) :> Hi(NOP) @@ (TopSeg * W16 + 65535) :> Lo(NOP))
      @@ Image(F_S_N + F_SEG_Z8001, TopSeg, 65534, F_S_N + F_SEG_Z8001, <<>>,
               HandlerProgram)

\* images with an even entry point in segment 0, one whose entry point is odd,
\* on the Z8001 one whose entry point is in segment 1, one that halts at
\* once and one that starts at the top of the address space
Images ==
    { Image(rfcw + sb, 0, ProgAt, vfcw + OtherSegBit(sb), prog, HandlerProgram) :
        rfcw \in ResetFcws, sb \in SegBit, vfcw \in VectorFcws, prog \in Programs }
    \cup { Image(F_S_N, 0, ProgAt + 1, F_S_N, <<NOP, HALT>>, HandlerProgram) }
    \cup { Image(F_S_N + F_SEG, 1, ProgAt, F_S_N + F_SEG, <<NOP, SC, HALT>>,
                 HandlerProgram) : x \in IF segmented THEN {1} ELSE {} }
    \cup { HaltImage, TopImage, RefreshImage, SpinImage }

-----------------------------------------------------------------------------
(* The state machine                                                       *)

RunBudgets == {-1, 0, 10}

Internal == {"EPU", "TRAP", "SYSCALL"}

NoCall == [call |-> "none", arg |-> 0, ret |-> 0, pre |-> Mach(Constructed, <<>>),
           mid |-> Mach(Constructed, <<>>), bus |-> <<>>,
           raiser |-> [c \in Internal |-> -1], budget |-> 0, resetdata |-> <<>>]

\* no unit has been exercised: the register file as clear_internal_state
\* leaves it, no dispatch table built, the I/O ports as IOPorts::clear leaves
\* them (io; lw records for each loopback port the last word a word write
\* gave it)
NoUnit == [op |-> "none", n |-> 0, be |-> FALSE, W |-> [i \in 0..15 |-> 0],
           in |-> <<>>, pre |-> <<>>, out |-> <<>>, zsp |-> <<>>,
           io |-> [data |-> 4660, ctrl |-> 0, sio |-> 22136],
           lw |-> [data |-> 4660, ctrl |-> 0, sio |-> 22136]]

Init ==
    /\ segmented \in BOOLEAN
    /\ cpu = Constructed
    /\ data \in Images
    /\ inrun = FALSE
    /\ last = NoCall
    /\ raiser = [c \in Internal |-> -1]
    /\ calls = 0
    /\ unit = NoUnit

\* the opcodes of the instructions a call executed
Executed(bus) == {bus[i].val : i \in {j \in 1..Len(bus) : bus[j].op = "X"}}

Attached(c) == c.program_bus /\ c.io_bus

\* The call is recorded in last and its result s becomes the state: pre is the
\* machine at the call, mid the machine after its interrupt servicing (pre
\* for a call that does none), bus the events of the whole call, budget the
\* max_cycles of the run() in progress or last made, resetdata the memory at
\* the last reset().
FinishCore(call, arg, ret, mid, s) ==
    /\ Executed(s.bus) \subseteq Decoded
    /\ cpu' = CpuOf(s)
    /\ data' = s.data
    /\ last' = [call |-> call, arg |-> arg, ret |-> ret, pre |-> Mach(cpu, data),
                mid |-> mid, bus |-> s.bus, raiser |-> raiser,
                budget |-> IF call = "run" THEN arg ELSE last.budget,
                resetdata |-> IF call = "reset" THEN data ELSE last.resetdata]
    /\ raiser' = [c \in Internal |->
                    IF call = "reset" THEN -1
                    ELSE IF c \in s.irq_req \ mid.irq_req THEN s.op[1]
                    ELSE raiser[c]]
    /\ UNCHANGED <<segmented, unit>>

\* a call that counts towards MaxCalls
Finish(call, arg, ret, mid, s) ==
    /\ FinishCore(call, arg, ret, mid, s)
    /\ calls' = calls + 1

\* an edit of the device by the host between calls: no call is the last event
HostEdit(c) ==
    /\ cpu' = c
    /\ last' = [NoCall EXCEPT !.call = "host", !.budget = last.budget,
                              !.resetdata = last.resetdata]
    /\ UNCHANGED <<segmented, data, inrun, raiser, calls, unit>>

\* set_program_memory / set_data_memory / set_stack_memory with one region;
\* the host wires the buses before its first call, or leaves them unwired
SetMemory ==
    /\ calls = 0 /\ ~cpu.program_bus
    /\ HostEdit([cpu EXCEPT !.program_bus = TRUE])

SetIo ==
    /\ calls = 0 /\ ~cpu.io_bus
    /\ HostEdit([cpu EXCEPT !.io_bus = TRUE])

Reset ==
    /\ ~inrun /\ calls < MaxCalls
    /\ Finish("reset", 0, 0, Mach(cpu, data), reset(Mach(cpu, data)))
    /\ UNCHANGED inrun

\* main, after its one cpu.reset(): the entry point given on the command line is
\* written over the PC of the reset vector, and a reset FCW of 0 is replaced
\* by system mode (segmented on the Z8001)
OverrideEntry ==
    /\ ~inrun /\ last.call = "reset" /\ calls = 1 /\ Attached(cpu)
    /\ \E entry_addr \in {HandlerAt} :
         LET d1 == IF segmented
                   THEN write_word(write_word(data, 4,
                                              ((entry_addr \div W16) % 128) * 256 + 32768),
                                   6, entry_addr % W16)
                   ELSE write_word(data, 4, entry_addr % W16)
         IN  data' = IF read_word(d1, 2) = 0
                     THEN write_word(d1, 2, IF segmented THEN 49152 ELSE 16384)
                     ELSE d1
    /\ last' = [NoCall EXCEPT !.call = "host", !.budget = last.budget,
                              !.resetdata = last.resetdata]
    /\ UNCHANGED <<segmented, cpu, inrun, raiser, calls, unit>>

\* the machine after the interrupt servicing of step() or of the loop body
Mid(s) == IF Attached(s) THEN ServiceIfPending(s) ELSE s

Step ==
    /\ ~inrun /\ calls < MaxCalls
    /\ \E segt \in BOOLEAN :
         /\ segt => segmented
         /\ Finish("step", IF segt THEN 1 ELSE 0, step_ret(Mach(cpu, data), segt),
                   Mid(Mach(cpu, data)), step(Mach(cpu, data), segt))
    /\ UNCHANGED inrun

RunEnter ==
    /\ ~inrun /\ calls < MaxCalls
    /\ \E max_cycles \in RunBudgets :
         Finish("run", max_cycles, 0, Mach(cpu, data),
                run_enter(Mach(cpu, data), max_cycles))
    /\ inrun' = Attached(cpu)

RunIter ==
    /\ inrun /\ calls < MaxCalls
    /\ \E segt \in BOOLEAN :
         /\ segt => segmented
         /\ Finish("run_body", IF segt THEN 1 ELSE 0, 0,
                   Mid(Mach(cpu, data)), run_body(Mach(cpu, data), segt))
    /\ inrun' = run_again(cpu')

\* the remaining passes of the loop of run() taken at once, where a pass
\* changes nothing but the counters: icount goes down and total_cycles up by
\* the same d > 0 (a JR $ with nothing pending).  Pass j takes place when
\* icount is positive after pass j - 1, so k = ceil(icount / d) passes follow.
RunSpin ==
    /\ inrun /\ calls < MaxCalls
    /\ \E s1 \in {run_body(Mach(cpu, data), FALSE)} :
       \E d \in {cpu.icount - s1.icount} :
       \E k \in {(cpu.icount + d - 1) \div (IF d > 0 THEN d ELSE 1)} :
           /\ d > 0
           /\ s1 = [Mach(cpu, data) EXCEPT !.icount = @ - d, !.total_cycles = @ + d,
                                           !.bus = s1.bus]
           /\ Finish("run_spin", k, 0, Mach(cpu, data),
                     [s1 EXCEPT !.icount = cpu.icount - k * d,
                                !.total_cycles = cpu.total_cycles + k * d])
    /\ inrun' = run_again(cpu')

\* the host asserts the NMI input: a rising edge of nmi_state requests NMI
AssertNMI ==
    /\ ~inrun /\ Attached(cpu) /\ cpu.nmi_state = CLEAR_LINE
    /\ HostEdit([cpu EXCEPT !.nmi_state = ASSERT_LINE, !.irq_req = @ \cup {"NMI"}])

\* the host asserts irq_state[line]: the level requests NVI (line 0) or VI
\* (line 1) when the enable bit of FCW is set
AssertIrq ==
    /\ ~inrun /\ Attached(cpu)
    /\ \E line \in {0, 1} :
         LET c == IF line = 0 THEN "NVI" ELSE "VI"
             en == Has(cpu.fcw, IF line = 0 THEN F_NVIE ELSE F_VIE)
         IN  /\ cpu.irq_state[line + 1] = CLEAR_LINE
             /\ HostEdit([cpu EXCEPT !.irq_state[line + 1] = ASSERT_LINE,
                                    !.irq_req = IF en THEN @ \cup {c} ELSE @])

Next ==
    \/ SetMemory
    \/ SetIo
    \/ Reset
    \/ OverrideEntry
    \/ Step
    \/ RunEnter
    \/ RunIter
    \/ RunSpin
    \/ AssertNMI
    \/ AssertIrq

Spec == Init /\ [][Next]_vars

-----------------------------------------------------------------------------
(* The device run to completion: a wired and reset CPU on a program that   *)
(* halts, calls without a bound on their number, the loop of run() fair    *)
(* (it goes on by itself) and the host fair in that it keeps calling.      *)

\* images whose reset FCW enables VI and NVI, in system or in normal mode, and
\* whose vectors disable them
LiveImages ==
    { Image(mode + F_VIE + F_NVIE, 0, ProgAt, F_S_N, prog, HandlerProgram) :
        mode \in {F_S_N, 0}, prog \in Programs }

LiveInit ==
    /\ segmented \in BOOLEAN
    /\ data \in LiveImages
    /\ cpu = CpuOf(reset(Mach([Constructed EXCEPT !.program_bus = TRUE,
                                                  !.io_bus = TRUE], data)))
    /\ inrun = FALSE
    /\ last = NoCall
    /\ raiser = [c \in Internal |-> -1]
    /\ calls = 0
    /\ unit = NoUnit

LStep ==
    /\ ~inrun
    /\ FinishCore("step", 0, step_ret(Mach(cpu, data), FALSE),
                  Mid(Mach(cpu, data)), step(Mach(cpu, data), FALSE))
    /\ UNCHANGED <<inrun, calls>>

LRunEnter ==
    /\ ~inrun
    /\ \E max_cycles \in {0, 10} :
         FinishCore("run", max_cycles, 0, Mach(cpu, data),
                    run_enter(Mach(cpu, data), max_cycles))
    /\ inrun' = TRUE
    /\ UNCHANGED calls

LRunIter ==
    /\ inrun
    /\ FinishCore("run_body", 0, 0, Mid(Mach(cpu, data)), run_body(Mach(cpu, data), FALSE))
    /\ inrun' = run_again(cpu')
    /\ UNCHANGED calls

LiveNext ==
    \/ LStep
    \/ LRunEnter
    \/ LRunIter
    \/ AssertNMI
    \/ AssertIrq

\* Weak fairness of the loop of run(): once entered it goes on by itself.
\* LRunIter is enabled exactly when inrun holds (the pass always changes
\* icount or ends the loop), so this is WF_vars(LRunIter) with its enabling
\* condition written out.
LoopFair == []<>(~inrun) \/ []<><<LRunIter>>_vars

\* the host keeps calling run(), the loop keeps going
LiveSpec ==
    /\ LiveInit /\ [][LiveNext]_vars
    /\ WF_vars(LRunEnter)
    /\ LoopFair

-----------------------------------------------------------------------------
(* Units of the device exercised on their own                              *)

MainVars == <<segmented, cpu, data, inrun, last, raiser, calls>>

\* the memory that holds the words ws from address base on
MemOf(base, ws) ==
    [b \in UNION {{base + 2 * (i - 1), base + 2 * (i - 1) + 1} : i \in 1..Len(ws)} |->
        LET w == ws[((b - base) \div 2) + 1]
        IN  IF (b - base) % 2 = 0 THEN Hi(w) ELSE Lo(w)]

\* the device inside a handler: the opcode at ProgAt has been fetched, the
\* words that follow it are ws
InHandler(fcw, ws) ==
    Mach([Constructed EXCEPT !.fcw = fcw, !.ppc = ProgAt, !.pc = ProgAt + 2,
                             !.op_valid = 1,
                             !.program_bus = TRUE, !.io_bus = TRUE],
         MemOf(ProgAt + 2, ws))

\* first and second word of an address operand
AddrWords1 == {0, 255, 4660, 32512, 32767, 32768, 33024, 43981, 65280, 65535}
AddrWords2 == {0, 1, 22136, 65535}

\* system mode, with and without SEG
UnitFcws == {F_S_N, F_S_N + F_SEG}

UnitInit ==
    /\ segmented \in BOOLEAN
    /\ cpu = Constructed
    /\ data = <<>>
    /\ inrun = FALSE
    /\ last = NoCall
    /\ raiser = [c \in Internal |-> -1]
    /\ calls = 0
    /\ unit \in {[NoUnit EXCEPT !.be = b] : b \in BOOLEAN}

\* a handler calls get_addr_operand(1)
UGetAddrOperand ==
    /\ unit.op = "none"
    /\ \E w1 \in AddrWords1, w2 \in AddrWords2, fcw \in UnitFcws :
         LET m == InHandler(fcw, <<w1, w2>>)
         IN  unit' = [unit EXCEPT !.op = "get_addr_operand", !.n = 1,
                                  !.in = <<w1, w2>>, !.pre = m,
                                  !.out = get_addr_operand(m, 1)]
    /\ UNCHANGED MainVars

\* a handler calls get_operand(n) for the first time; the slots below n are
\* valid (the function asserts it), the program goes on with w, w + 1, 4660
UGetOperand ==
    /\ unit.op = "none"
    /\ \E n \in {1, 2}, w \in {0, 255, 43981, 65534}, fcw \in UnitFcws :
         LET m == [InHandler(fcw, <<w, w + 1, 4660>>) EXCEPT !.op_valid = 2^n - 1]
         IN  unit' = [unit EXCEPT !.op = "get_operand", !.n = 1, !.in = <<n, w>>,
                                  !.pre = m, !.out = get_operand(m, n)]
    /\ UNCHANGED MainVars

\* the handler calls get_operand(n) again within the same instruction
UGetOperandAgain ==
    /\ unit.op = "get_operand"
    /\ unit.n <= MaxWrites
    /\ unit' = [unit EXCEPT !.n = @ + 1, !.pre = unit.out,
                            !.out = get_operand(unit.out, unit.in[1])]
    /\ UNCHANGED MainVars

\* a handler whose pc is in segment pseg (0 on the Z8002) reads or writes
\* memory at addr through one of the helpers
UAccess ==
    /\ unit.op = "none"
    /\ \E h \in {"RDMEM_B", "RDMEM_W", "RDMEM_L", "WRMEM_B", "WRMEM_W", "WRMEM_L"},
          addr \in {4096, 4099, 65534} \cup
                   (IF segmented THEN {135168, 196606, 8323075} ELSE {}),
          pseg \in (IF segmented THEN {0, 2, 127} ELSE {0}),
          fcw \in UnitFcws :
         LET m == [InHandler(fcw, <<>>) EXCEPT !.pc = pseg * W16 + ProgAt + 2]
         IN  unit' = [unit EXCEPT
                 !.op = "access", !.n = 1, !.in = <<h, addr>>, !.pre = m,
                 !.out = CASE h = "RDMEM_B" -> RDMEM_B(m, addr)
                           [] h = "RDMEM_W" -> RDMEM_W(m, addr)
                           [] h = "RDMEM_L" -> RDMEM_L(m, addr)
                           [] h = "WRMEM_B" -> WRMEM_B(m, addr, 90)
                           [] h = "WRMEM_W" -> WRMEM_W(m, addr, 4660)
                           [] h = "WRMEM_L" -> WRMEM_L(m, addr, <<4660, 22136>>)]
    /\ UNCHANGED MainVars

\* ---- the I/O ports of the front end (IOPorts, memory.h): io holds
\* ---- m_io_data_reg, m_io_ctrl_reg and m_sio_data_reg; mode 0 is normal,
\* ---- 1 special

IOPorts_read_word(io, addr, mode) ==
    LET a == Even(addr)
    IN  IF mode = 0
        THEN CASE a = 0 -> io.data [] a = 2 -> io.ctrl [] a = 16 -> 43520
               [] OTHER -> 57005
        ELSE CASE a = 32 -> io.sio [] OTHER -> 48879

\* a word write that does not look at the mode
IOPorts_write_wordAnyMode(io, addr, val, mode) ==
    LET a == Even(addr)
    IN  CASE a = 0 -> [io EXCEPT !.data = val]
          [] a = 2 -> [io EXCEPT !.ctrl = val]
          [] a = 32 -> [io EXCEPT !.sio = val]
          [] OTHER -> io

IOPorts_write_word(io, addr, val, mode) ==
    LET a == Even(addr)
    IN  IF mode = 0
        THEN CASE a = 0 -> [io EXCEPT !.data = val]
               [] a = 2 -> [io EXCEPT !.ctrl = val]
               [] OTHER -> io
        ELSE CASE a = 32 -> [io EXCEPT !.sio = val]
               [] OTHER -> io

\* (reg & 0xFF00) | val for an odd address, (reg & 0x00FF) | (val << 8) for
\* an even one
IOPorts_write_byte(io, addr, val, mode) ==
    LET a == Even(addr)
        put(reg) == IF addr % 2 = 1 THEN (reg - (reg % 256)) + val
                    ELSE (reg % 256) + val * 256
    IN  IF mode = 0
        THEN CASE a = 0 -> [io EXCEPT !.data = put(@)]
               [] a = 2 -> [io EXCEPT !.ctrl = put(@)]
               [] OTHER -> io
        ELSE CASE a = 32 -> [io EXCEPT !.sio = put(@)]
               [] OTHER -> io

\* the key of the loopback port a word or byte address names in a mode
LoopbackPort(addr, mode) ==
    CASE mode = 0 /\ Even(addr) = 0 -> "data"
      [] mode = 0 /\ Even(addr) = 2 -> "ctrl"
      [] mode = 1 /\ Even(addr) = 32 -> "sio"
      [] OTHER -> "none"

\* a handler writes a word to a port
UIoWriteWord ==
    /\ unit.op \in {"none", "io_write_word", "io_write_byte", "io_read_word"}
    /\ unit.n <= MaxWrites
    /\ \E x \in {<<0, 4369, 0>>, <<0, 43981, 0>>, <<3, 4369, 0>>, <<32, 4369, 1>>,
                  <<32, 4369, 0>>, <<0, 4369, 1>>, <<16, 4369, 0>>, <<48, 4369, 1>>} :
         unit' = [unit EXCEPT
                    !.op = "io_write_word", !.n = @ + 1, !.in = x, !.pre = unit.io,
                    !.io = IOPorts_write_word(@, x[1], x[2], x[3]),
                    !.lw = IF LoopbackPort(x[1], x[3]) = "none" THEN @
                           ELSE [@ EXCEPT ![LoopbackPort(x[1], x[3])] = x[2]]]
    /\ UNCHANGED MainVars

\* a handler writes a byte to a port
UIoWriteByte ==
    /\ unit.op \in {"none", "io_write_word", "io_write_byte", "io_read_word"}
    /\ unit.n <= MaxWrites
    /\ \E x \in {<<0, 34, 0>>, <<1, 34, 0>>, <<33, 34, 1>>, <<1, 34, 1>>, <<17, 34, 0>>} :
         unit' = [unit EXCEPT
                    !.op = "io_write_byte", !.n = @ + 1, !.in = x, !.pre = unit.io,
                    !.io = IOPorts_write_byte(@, x[1], x[2], x[3])]
    /\ UNCHANGED MainVars

\* a handler reads a word from a port
UIoReadWord ==
    /\ unit.op \in {"none", "io_write_word", "io_write_byte", "io_read_word"}
    /\ unit.n <= MaxWrites
    /\ \E x \in {<<0, 0>>, <<32, 1>>, <<16, 0>>} :
         unit' = [unit EXCEPT
                    !.op = "io_read_word", !.n = @ + 1, !.in = x, !.pre = unit.io,
                    !.out = IOPorts_read_word(unit.io, x[1], x[2])]
    /\ UNCHANGED MainVars

\* the byte address a write designates: in non-segmented mode on the Z8001
\* the segment is that of pc (0 inside InHandler)
Designated(fcw, X) == IF segmented /\ fcw < F_SEG THEN X % W16 ELSE X

\* addresses and values of byte writes, and words the memory holds before
ByteAddrs ==
    {4096, 4097, 65533, 65534} \cup (IF segmented THEN {200705, 8388606} ELSE {})
ByteVals == {0, 90, 255}
OldWords == {0, 4660, 65535}

\* a handler calls WRMEM_B(m_data, X, v); the memory holds A5A5, old, A5A5
\* around the word of X
UWriteByte ==
    /\ unit.op = "none"
    /\ \E X \in ByteAddrs, v \in ByteVals, old \in OldWords, fcw \in UnitFcws :
         LET m == [InHandler(fcw, <<>>) EXCEPT
                     !.data = MemOf(Even(Designated(fcw, X)) - 2, <<42405, old, 42405>>)]
         IN  unit' = [unit EXCEPT !.op = "WRMEM_B", !.n = 1,
                                  !.in = <<Designated(fcw, X), v>>, !.pre = m,
                                  !.out = WRMEM_B(m, X, v)]
    /\ UNCHANGED MainVars

\* ---- the register file: sixteen host words W[0..15] of the register union,
\* ---- viewed as words through RW and as longs (pairs <<high, low>>) through RL.
\* ---- be tells whether the host the device was built for is big-endian.

\* a word index transform that is the identity on every host
BYTE4_XOR_BEIdentity(be, x) == x

\* BYTE4_XOR_BE(x): x on a big-endian host, x ^ 1 on a little-endian one
BYTE4_XOR_BE(be, x) == IF be THEN x ELSE IF x % 2 = 0 THEN x + 1 ELSE x - 1

\* BYTE_XOR_BE(x): x on either host
BYTE_XOR_BE(be, x) == x

\* RW(n) = W[BYTE4_XOR_BE(n)]
RW(W, be, n) == W[BYTE4_XOR_BE(be, n)]

SetRW(W, be, n, v) == [W EXCEPT ![BYTE4_XOR_BE(be, n)] = v]

\* RL(n) = L[BYTE_XOR_BE(n >> 1)], where the host long L[k] lies over W[2k]
\* and W[2k+1]: the word at the lower address is its high half on a
\* big-endian host and its low half on a little-endian one
RL(W, be, n) ==
    LET k == BYTE_XOR_BE(be, n \div 2)
    IN  IF be THEN <<W[2 * k], W[2 * k + 1]>> ELSE <<W[2 * k + 1], W[2 * k]>>

SetRL(W, be, n, v) ==
    LET k == BYTE_XOR_BE(be, n \div 2)
    IN  IF be THEN [W EXCEPT ![2 * k] = v[1], ![2 * k + 1] = v[2]]
        ELSE [W EXCEPT ![2 * k] = v[2], ![2 * k + 1] = v[1]]

\* a handler assigns to RW(n)
UWriteRW ==
    /\ unit.op \in {"none", "RW", "RL"}
    /\ unit.n < MaxWrites
    /\ \E n \in {0, 1, 2, 3, 14, 15}, v \in {4660, 43981} :
         unit' = [unit EXCEPT !.op = "RW", !.n = @ + 1, !.in = <<n, v>>,
                              !.pre = unit.W, !.W = SetRW(@, unit.be, n, v)]
    /\ UNCHANGED MainVars

\* a handler assigns to RL(n), n even
UWriteRL ==
    /\ unit.op \in {"none", "RW", "RL"}
    /\ unit.n < MaxWrites
    /\ \E n \in {0, 2, 14}, v \in {<<4660, 22136>>, <<65535, 1>>} :
         unit' = [unit EXCEPT !.op = "RL", !.n = @ + 1, !.in = <<n, v>>,
                              !.pre = unit.W, !.W = SetRL(@, unit.be, n, v)]
    /\ UNCHANGED MainVars

\* ---- the dispatch table: exec[op] is the index of an authoring entry, -1
\* ---- where init_tables wrote nothing

\* bit k of i
Bit(i, k) == (i \div 2^k) % 2

\* a table entry whose PV is set for an odd number of 1 bits
ZspEntryOddParity(i) ==
    (IF i = 0 THEN F_Z ELSE 0) + (IF Bit(i, 7) = 1 THEN F_S ELSE 0) +
    (IF (Bit(i, 7) + Bit(i, 6) + Bit(i, 5) + Bit(i, 4) + Bit(i, 3) + Bit(i, 2)
          + Bit(i, 1) + Bit(i, 0)) % 2 = 1 THEN F_PV ELSE 0)

\* ((i == 0) ? F_Z : 0) | ((i & 128) ? F_S : 0) |
\* ((((i>>7)^(i>>6)^(i>>5)^(i>>4)^(i>>3)^(i>>2)^(i>>1)^i) & 1) ? 0 : F_PV):
\* bit 0 of the exclusive or is the sum of the eight bits modulo 2
ZspEntry(i) ==
    (IF i = 0 THEN F_Z ELSE 0) + (IF Bit(i, 7) = 1 THEN F_S ELSE 0) +
    (IF (Bit(i, 7) + Bit(i, 6) + Bit(i, 5) + Bit(i, 4) + Bit(i, 3) + Bit(i, 2)
          + Bit(i, 1) + Bit(i, 0)) % 2 = 1 THEN 0 ELSE F_PV)

\* for (int i = 0; i < 256; i++) z8000_zsp[i] = ...
z8000_zsp == [i \in 0..255 |-> ZspEntry(i)]

\* the inner loop of an initialisation in which an opcode keeps its first entry
RECURSIVE FillKeepFirst(_, _, _, _)
FillKeepFirst(exec, opc, idx, val) ==
    IF val > opc.end THEN exec
    ELSE FillKeepFirst(IF exec[val] = -1 THEN [exec EXCEPT ![val] = idx] ELSE exec,
                       opc, idx, val + opc.step)

\* for (u32 val = opc->beg; val <= opc->end; val += opc->step)
\*     z8000_exec[val] = opc - table;
RECURSIVE Fill(_, _, _, _)
Fill(exec, opc, idx, val) ==
    IF val > opc.end THEN exec
    ELSE Fill([exec EXCEPT ![val] = idx], opc, idx, val + opc.step)

\* for (const Z8000_init *opc = table; opc->size; opc++): table holds the
\* entries before the terminating one, i is the position of opc
RECURSIVE InitFrom(_, _, _)
InitFrom(exec, table, i) ==
    IF i > Len(table) THEN exec
    ELSE InitFrom(Fill(exec, table[i], i - 1, table[i].beg), table, i + 1)

init_tables(table) == InitFrom([op \in 0..MaxOp |-> -1], table, 1)

\* authoring entries over the opcodes 0..MaxOp, with step 1 or 2
Entries ==
    {[beg |-> b, end |-> e, step |-> 1] : b \in 0..MaxOp, e \in 0..MaxOp} \cup
    {[beg |-> b, end |-> e, step |-> 2] : b \in 0..MaxOp, e \in 1..MaxOp}

Tables ==
    UNION {[1..n -> {opc \in Entries : opc.beg <= opc.end /\
                                         (opc.step = 2 => opc.beg < opc.end)}] :
             n \in 1..MaxTable}

\* the tables are initialised from an authoring table
UInitTables ==
    /\ unit.op = "none"
    /\ \E table \in Tables :
         unit' = [unit EXCEPT !.op = "init_tables", !.n = 1, !.in = table,
                              !.zsp = z8000_zsp, !.out = init_tables(table)]
    /\ UNCHANGED MainVars

UnitNext ==
    \/ UGetAddrOperand
    \/ UWriteByte
    \/ UWriteRW
    \/ UWriteRL
    \/ UInitTables
    \/ UGetOperand
    \/ UGetOperandAgain
    \/ UAccess
    \/ UIoWriteWord
    \/ UIoWriteByte
    \/ UIoReadWord

UnitSpec == UnitInit /\ [][UnitNext]_vars

-----------------------------------------------------------------------------
(* Observations of the last call                                           *)

\* the last call was a step() or a pass of the loop of run() on a wired device
Boundary == last.call \in {"step", "run_body"} /\ Attached(last.pre)

\* the events of the interrupt servicing at the start of the last call
IrqBus == last.mid.bus

\* the positions of the events of kind k in a list of events
At(b, k) == {i \in 1..Len(b) : b[i].op = k}

\* the first and last address of the status area entry of a cause
EntryFirst(c) == (IF segmented THEN 2 ELSE 1) * VecOffset(c)
EntryLast(c) == EntryFirst(c) + (IF segmented THEN 8 ELSE 4) - 1

\* the cause whose entry the first vector read of the servicing addressed:
\* the reset entry starts with the FCW at 2
Serviced ==
    IF At(IrqBus, "R") = {} THEN "none"
    ELSE LET i == CHOOSE j \in At(IrqBus, "R") : \A k \in At(IrqBus, "R") : j <= k
             a == IrqBus[i].addr % W16
         IN  IF a = 2 THEN "RESET"
             ELSE CHOOSE c \in Causes \ {"RESET"} : EntryFirst(c) <= a /\ a <= EntryLast(c)

\* the documented priority of a cause, 1 the highest
Rank(c) ==
    CASE c = "RESET" -> 1 [] c = "EPU" -> 2 [] c = "TRAP" -> 3 [] c = "SYSCALL" -> 4
      [] c = "SEGTRAP" -> 5 [] c = "NMI" -> 6 [] c = "NVI" -> 7 [] c = "VI" -> 8

\* NVI and VI are serviceable only with their enable bit; the others always
Masked(s, c) ==
    \/ c = "NVI" /\ ~Has(s.fcw, F_NVIE)
    \/ c = "VI" /\ ~Has(s.fcw, F_VIE)

Serviceable(s) == {c \in s.irq_req : ~Masked(s, c)}

\* the system stack pointer (offset, segment word) in machine s
SysSP(s) == IF Has(s.fcw, F_S_N) THEN s.regs[15] ELSE s.nspoff
SysSPSeg(s) == IF Has(s.fcw, F_S_N) THEN s.regs[14] ELSE s.nspseg

\* the memory address of offset off of the system stack of last.pre
StackAddr(off) ==
    IF segmented
    THEN ((SysSPSeg(last.pre) \div 256) % 128) * W16 + Even(off % W16)
    ELSE Even(off % W16)

\* the number of words a context save pushes
FrameWords == IF segmented THEN 4 ELSE 3

\* the event of a word write
Wr(a, v) == [op |-> "W", addr |-> a, val |-> v]

-----------------------------------------------------------------------------
(* Claims                                                                  *)

\* C1: at an instruction boundary with requests pending, the cause serviced is
\* the serviceable one of highest priority in the order RESET, EPU, TRAP,
\* SYSCALL, SEGTRAP, NMI, NVI, VI; no cause is serviced when none is
\* serviceable; and only that one is serviced: every vector read addresses its
\* entry (or the vectored table), at most one context is saved, and every
\* other pending request stays pending unless a reset discards it.
C1_PriorityOrder ==
    Boundary /\ last.pre.irq_req # {} =>
        LET able == Serviceable(last.pre)
        IN  /\ able = {} => Serviced = "none" /\ IrqBus = <<>>
            /\ able # {} =>
                 /\ Serviced \in able
                 /\ \A d \in able : Rank(Serviced) <= Rank(d)
                 /\ \A i \in At(IrqBus, "R") :
                      LET a == IrqBus[i].addr % W16
                      IN  IF Serviced = "RESET" THEN 2 <= a /\ a <= 7
                          ELSE \/ EntryFirst(Serviced) <= a /\ a <= EntryLast(Serviced)
                               \/ Serviced = "VI" /\ a >= EntryFirst("VEC00")
                 /\ Cardinality(At(IrqBus, "W")) =
                      IF Serviced = "RESET" THEN 0 ELSE FrameWords
                 /\ Serviced # "RESET" =>
                      last.pre.irq_req \ {Serviced} \subseteq last.mid.irq_req

\* two or more serviceable causes are pending and one that is not RESET is serviced
C1_Witness ==
    /\ Boundary
    /\ Cardinality(Serviceable(last.pre)) >= 2
    /\ Serviced \in {"NMI", "NVI"}

\* C2: servicing RESET clears every pending request except NVI and VI, loads
\* FCW from the word at address 2 and PC from address 4: one word on the
\* Z8002, a long segmented address (segment in bits 8..14 of the high word)
\* on the Z8001.
C2_ResetService ==
    Boundary /\ "RESET" \in last.pre.irq_req =>
        LET d == last.pre.data
            word(a) == Byte(d, a) * 256 + Byte(d, a + 1)
        IN  /\ last.mid.irq_req \subseteq {"NVI", "VI"}
            /\ last.mid.fcw = word(2)
            /\ last.mid.pc = IF segmented
                             THEN ((word(4) \div 256) % 128) * W16 + word(6)
                             ELSE word(4)

\* RESET is serviced while NMI is pending too
C2_Witness ==
    /\ Boundary
    /\ {"RESET", "NMI"} \subseteq last.pre.irq_req
    /\ last.mid.pc # 0

\* the last call serviced a cause other than RESET
Trapped == Boundary /\ Serviced \notin {"none", "RESET"}

\* the tag word of the context the last call saved: the last word written
TagPushed == IrqBus[FrameWords + 1].val

\* C3: servicing a cause other than RESET first sets FCW to the old FCW with
\* S_N (and SEG on the Z8001) set, then writes below the system stack pointer
\* the PC (one word on the Z8002, segment word and offset on the Z8001), the
\* FCW held before the servicing and the tag word, in this order and with
\* nothing in between; the system stack pointer ends 6 (Z8002) or 8 (Z8001)
\* bytes lower and designates the tag; FCW and PC are read from the vector
\* slots of the cause only after the last push, and nothing is written then.
C3_ContextSave ==
    Trapped =>
        LET pre == last.pre
            b   == IrqBus
            n   == FrameWords + 1
            sp  == SysSP(pre)
            f1  == pre.fcw + (IF Has(pre.fcw, F_S_N) THEN 0 ELSE F_S_N)
                     + (IF segmented /\ ~Has(pre.fcw, F_SEG) THEN F_SEG ELSE 0)
            slot == IF Serviced = "VI" THEN EntryFirst("VEC00")
                    ELSE EntryFirst(Serviced) + (IF segmented THEN 4 ELSE 2)
        IN  /\ Len(b) > n
            /\ b[1] = [op |-> "FCW", addr |-> 0, val |-> f1]
            /\ IF segmented
               THEN /\ b[2] = Wr(StackAddr(sp - 4), 32768 + ((pre.pc \div W16) % 128) * 256)
                    /\ b[3] = Wr(StackAddr(sp - 2), pre.pc % W16)
                    /\ b[4] = Wr(StackAddr(sp - 6), pre.fcw)
                    /\ b[5].op = "W" /\ b[5].addr = StackAddr(sp - 8)
               ELSE /\ b[2] = Wr(StackAddr(sp - 2), pre.pc % W16)
                    /\ b[3] = Wr(StackAddr(sp - 4), pre.fcw)
                    /\ b[4].op = "W" /\ b[4].addr = StackAddr(sp - 6)
            /\ \A i \in (n + 1)..Len(b) : b[i].op \in {"R", "FCW", "PC"}
            /\ SysSP(last.mid) = (sp - 2 * FrameWords) % W16
            /\ read_word(last.mid.data, StackAddr(SysSP(last.mid))) = b[n].val
            /\ \E i \in (n + 1)..Len(b) :
                 /\ b[i].op = "R"
                 /\ b[i].addr % W16 = EntryFirst(Serviced) + (IF segmented THEN 2 ELSE 0)
                 /\ b[i].val = last.mid.fcw
            /\ \E i \in (n + 1)..Len(b) :
                 /\ b[i].op = "R"
                 /\ b[i].addr % W16 = slot
                 /\ IF segmented
                    THEN /\ i < Len(b) /\ b[i + 1].op = "R"
                         /\ last.mid.pc = ((b[i].val \div 256) % 128) * W16 + b[i + 1].val
                    ELSE last.mid.pc = b[i].val

\* a cause is serviced in normal mode, with the system stack pointer held in
\* the shadow register and different from R15
C3_Witness ==
    /\ Trapped
    /\ ~Has(last.pre.fcw, F_S_N)
    /\ last.pre.regs[15] # last.pre.nspoff

\* C4 (as the specification states it): after a cause other than RESET is
\* serviced the halt latch is clear and the pending bit of the cause is clear.
C4_HaltCleared ==
    Trapped => ~last.mid.halt /\ Serviced \notin last.mid.irq_req

\* C5: the tag pushed for EPU, TRAP or SYSCALL is the first opcode word of the
\* instruction that raised the trap; the tag pushed for SEGTRAP, NMI, NVI or
\* VI is irq_vec.
C5_TagWord ==
    Trapped =>
        IF Serviced \in Internal
        THEN TagPushed = last.raiser[Serviced]
        ELSE TagPushed = last.mid.irq_vec

\* an internal trap is serviced while an external request is pending too, and
\* the opcode that raised it is not the word the tag of an external cause holds
C5_Witness ==
    /\ Trapped
    /\ Serviced \in Internal
    /\ last.pre.irq_req \cap {"SEGTRAP", "NMI", "NVI", "VI"} # {}
    /\ TagPushed # last.pre.irq_vec

\* the opcode at the program counter of machine s
OpcodeAt(s) == read_word(s.data, s.pc)

\* requests are pending at the last call and every one of them is a masked
\* NVI or VI
OnlyMasked ==
    /\ Boundary
    /\ last.pre.irq_req # {}
    /\ \A c \in last.pre.irq_req : Masked(last.pre, c)

\* C6: NVI (VI) is serviced only at a boundary where FCW.NVIE (FCW.VIE) is
\* set; a masked request is still pending after the call; and when only masked
\* requests are pending the interrupt unit changes no field of the CPU,
\* accesses no memory, and the instruction at pc is fetched and executed with
\* its cycles accounted.
C6_MaskedStaysPending ==
    Boundary =>
        /\ Serviced = "NVI" => Has(last.pre.fcw, F_NVIE)
        /\ Serviced = "VI" => Has(last.pre.fcw, F_VIE)
        /\ \A c \in last.pre.irq_req :
             Masked(last.pre, c) => c \in last.mid.irq_req /\ c \in cpu.irq_req
        /\ OnlyMasked =>
             /\ CpuOf(last.mid) = CpuOf(last.pre)
             /\ last.mid.data = last.pre.data
             /\ IrqBus = <<>>
             /\ ~last.pre.halt =>
                  /\ Len(last.bus) >= 2
                  /\ last.bus[1] = [op |-> "F", addr |-> last.pre.pc,
                                    val |-> OpcodeAt(last.pre)]
                  /\ last.bus[2] = [op |-> "X", addr |-> 1, val |-> OpcodeAt(last.pre)]
                  /\ cpu.total_cycles =
                       last.pre.total_cycles + Cycles(OpcodeAt(last.pre))

\* only masked requests are pending and the CPU is not halted
C6_Witness == OnlyMasked /\ ~last.pre.halt

\* C7: op_valid is 0 whenever no call is in progress, and it is 1 at the entry
\* of every handler.
C7_OpValid ==
    /\ cpu.op_valid = 0
    /\ \A i \in At(last.bus, "X") : last.bus[i].addr = 1

\* a handler that fetches an operand word (which marks slot 1 valid) has run
C7_Witness ==
    /\ At(last.bus, "X") # {}
    /\ \E i \in At(last.bus, "X") : i < Len(last.bus) /\ last.bus[i + 1].op = "F"

\* the entry point the reset vector of an image names
ResetTarget(d) ==
    LET word(a) == Byte(d, a) * 256 + Byte(d, a + 1)
    IN  IF segmented THEN ((word(4) \div 256) % 128) * W16 + word(6) ELSE word(4)

\* the last call was the step() after a reset(), and the instruction at the
\* entry point is NOP
ResetThenStepNop ==
    /\ last.call = "step" /\ Attached(last.pre)
    /\ "RESET" \in last.pre.irq_req
    /\ read_word(last.pre.data, ResetTarget(last.pre.data)) = NOP

\* C8: after reset() and one step() into a NOP, pc is the reset-vector PC plus
\* 2 and total_cycles (and the value step() returns) is the cycle count of NOP.
C8_ResetStepNop ==
    ResetThenStepNop =>
        /\ cpu.pc = ResetTarget(last.pre.data) + 2
        /\ cpu.total_cycles = Cycles(NOP)
        /\ last.ret = Cycles(NOP)
        /\ "RESET" \notin cpu.irq_req
        /\ Executed(last.bus) = {NOP}

\* the step after reset() ran a NOP at an entry point outside segment 0
C8_Witness == ResetThenStepNop /\ ResetTarget(last.pre.data) >= W16

\* C9: after reset() irq_req holds exactly RESET, halt is clear, op_valid is 0,
\* mi is clear, the sixteen registers, pc, ppc, fcw, psap, nsp, refresh,
\* irq_vec and total_cycles are zero, and a second reset() changes nothing.
C9_ResetState ==
    last.call = "reset" =>
        /\ cpu.irq_req = {"RESET"}
        /\ ~cpu.halt
        /\ cpu.op_valid = 0
        /\ cpu.mi = CLEAR_LINE
        /\ \A r \in 0..15 : cpu.regs[r] = 0
        /\ cpu.pc = 0 /\ cpu.ppc = 0 /\ cpu.fcw = 0
        /\ cpu.psapseg = 0 /\ cpu.psapoff = 0
        /\ cpu.nspseg = 0 /\ cpu.nspoff = 0
        /\ cpu.refresh = 0 /\ cpu.irq_vec = 0 /\ cpu.total_cycles = 0
        /\ CpuOf(reset(Mach(cpu, data))) = cpu
        /\ data = last.pre.data

\* reset() is called with mi set, cycles accounted and pc advanced
C9_Witness ==
    /\ last.call = "reset"
    /\ last.pre.mi = ASSERT_LINE
    /\ last.pre.total_cycles > 0
    /\ last.pre.pc # 0

\* C10 (as the specification states it): a pass of the loop of run() fetches
\* an opcode only while the budget icount is above 0.
C10_BudgetTestedFirst ==
    last.call = "run_body" /\ At(last.bus, "F") # {} => last.pre.icount > 0

\* the last call found the CPU halted with no serviceable request pending
HaltedIdle ==
    /\ Boundary
    /\ last.pre.halt
    /\ Serviceable(last.pre) = {}

\* C11: with halt set and no serviceable request pending, step() and a pass
\* of run() fetch no opcode and enter no handler; pc, the registers, FCW,
\* irq_req, memory and total_cycles are as before; step() returns 0 and run()
\* ends with icount = 0.
C11_HaltedFrame ==
    HaltedIdle =>
        /\ last.bus = <<>>
        /\ cpu.pc = last.pre.pc
        /\ cpu.regs = last.pre.regs
        /\ cpu.fcw = last.pre.fcw
        /\ cpu.irq_req = last.pre.irq_req
        /\ cpu.halt
        /\ data = last.pre.data
        /\ cpu.total_cycles = last.pre.total_cycles
        /\ last.call = "step" => last.ret = 0 /\ cpu.icount = last.pre.icount
        /\ last.call = "run_body" => cpu.icount = 0 /\ ~inrun

\* run() with a budget above 0 finds the CPU halted
C11_Witness ==
    /\ HaltedIdle
    /\ last.call = "run_body"
    /\ last.pre.icount > 0
    /\ last.pre.total_cycles > 0

\* C12 (as the specification states it): an instruction executed by step() or
\* by run() has the cycle count of its dispatch entry subtracted from icount
\* and added to total_cycles, so that icount + total_cycles is the same before
\* and after it; total_cycles does not decrease and the interrupt servicing
\* leaves it as it is.
C12_CycleBalance ==
    Boundary =>
        /\ last.mid.total_cycles = last.pre.total_cycles
        /\ cpu.total_cycles >= last.pre.total_cycles
        /\ \A w \in Executed(last.bus) :
             /\ cpu.total_cycles = last.mid.total_cycles + Cycles(w)
             /\ cpu.icount = last.mid.icount - Cycles(w)
             /\ cpu.icount + cpu.total_cycles =
                  last.mid.icount + last.mid.total_cycles

\* the last call was a step() or a run() on a device with no program memory
\* bus or no I/O bus
Unwired == last.call \in {"step", "run"} /\ ~Attached(last.pre)

\* C13: step() and run() on a device with a bus missing return at once,
\* step() with -1: nothing is fetched, no pending request (RESET included) is
\* serviced, and no field of the CPU (icount and total_cycles included) and no
\* memory byte changes.
C13_Unattached ==
    Unwired =>
        /\ last.bus = <<>>
        /\ cpu = CpuOf(last.pre)
        /\ data = last.pre.data
        /\ ~inrun
        /\ last.call = "step" => last.ret = -1

\* run() with a budget above 0 is called with RESET pending and only one of
\* the two buses attached
C13_Witness ==
    /\ Unwired
    /\ last.call = "run" /\ last.arg > 0
    /\ "RESET" \in last.pre.irq_req
    /\ last.pre.program_bus # last.pre.io_bus

\* C14: an address operand fetched in segmented mode whose first word w1 has
\* bit 15 set consumes a second word w2, is ((w1 & 0x7f00) << 8) | w2 and
\* advances pc by 4; with bit 15 clear it is ((w1 & 0x7f00) << 8) | (w1 & 0xff)
\* and pc advances by 2; in non-segmented mode it is w1 and pc advances by 2.
C14_AddrOperand ==
    unit.op = "get_addr_operand" =>
        LET w1   == unit.in[1]
            w2   == unit.in[2]
            addr == unit.out.op[2]
            adv  == unit.out.pc - unit.pre.pc
            segm == segmented /\ unit.pre.fcw >= 32768
            high == ((w1 % 32768) - (w1 % 256)) * 256
        IN  /\ unit.out.op_valid = 3
            /\ unit.out.data = unit.pre.data
            /\ IF segm /\ w1 >= 32768
               THEN addr = high + w2 /\ adv = 4 /\ Len(unit.out.bus) = 2
               ELSE IF segm
               THEN addr = high + (w1 % 256) /\ adv = 2 /\ Len(unit.out.bus) = 1
               ELSE addr = w1 /\ adv = 2 /\ Len(unit.out.bus) = 1

\* a long segmented address with a segment other than 0 and an offset other
\* than 0 is fetched
C14_Witness ==
    /\ unit.op = "get_addr_operand"
    /\ segmented /\ unit.pre.fcw >= 32768
    /\ unit.in[1] >= 33024 /\ unit.in[2] > 0
    /\ unit.out.pc = unit.pre.pc + 4

\* C15: a byte write of v to address X changes only the byte at X: for odd X
\* the word at X-1 then reads as the old high byte and v, for even X the word
\* at X reads as v and the old low byte, and every other byte of the memory is
\* as before.
C15_ByteWrite ==
    unit.op = "WRMEM_B" =>
        LET X  == unit.in[1]
            v  == unit.in[2]
            d0 == unit.pre.data
            d1 == unit.out.data
            old == read_word(d0, X)
        IN  /\ X % 2 = 1 => read_word(d1, X - 1) = (old \div 256) * 256 + v
            /\ X % 2 = 0 => read_word(d1, X) = v * 256 + (old % 256)
            /\ \A a \in (DOMAIN d0) \cup (DOMAIN d1) :
                 a # X => Byte(d1, a) = Byte(d0, a)

\* a byte that differs from both halves of the old word is written to an odd
\* address and to an even one
C15_Witness ==
    /\ unit.op = "WRMEM_B"
    /\ unit.in[1] % 2 = 1
    /\ unit.in[2] = 90
    /\ read_word(unit.pre.data, unit.in[1]) = 4660
    /\ read_word(unit.out.data, unit.in[1]) = 4698


\* the accesses of a list of events that a memory bus sees: reads, writes and
\* the fetches of opcode and operand words
BusAccesses(b) == {i \in 1..Len(b) : b[i].op \in {"R", "W", "F"}}

\* C16 (as the specification states it): every word access a call presents to
\* a memory bus (opcode and operand fetches, word and long reads and writes)
\* carries an even address, in every reachable state, one with an odd pc
\* included.
C16_WordAligned ==
    last.call \in {"reset", "step", "run_body"} =>
        \A i \in BusAccesses(last.bus) : last.bus[i].addr % 2 = 0

\* C17 (as the specification states it): after the servicing of RESET, after
\* the vectoring of an interrupt or trap and after each completed instruction
\* bit 0 of pc is 0, whatever the reset vector and the vector table hold.
C17_PcAligned ==
    (last.call \in {"reset", "step", "run_body"} /\ Attached(last.pre)) =>
        /\ cpu.pc % 2 = 0
        /\ last.mid.pc % 2 = 0

\* the number of values pc can take: 16 bits on the Z8002, 23 on the Z8001
PcSpace == IF segmented THEN 8388608 ELSE W16

\* C18 (as the specification states it): pc fits its width in every reachable
\* state: at most FFFF on the Z8002, 23 bits on the Z8001, also after a word
\* was fetched at offset FFFE.
C18_PcWidth == cpu.pc < PcSpace


\* C19: for every even n in 0..14 the long view is RR(n) = (RW(n) << 16) |
\* RW(n+1) (as a pair: <<RW(n), RW(n+1)>>); writing RR(n) sets RW(n) and
\* RW(n+1) to the high and low halves of the value and leaves the other
\* fourteen words as they were; writing RW(n) changes that word only, and so
\* only the matching half of the long it belongs to.
C19_RegisterViews ==
    LET W  == unit.W
        P  == unit.pre
        be == unit.be
        n  == unit.in[1]
        v  == unit.in[2]
    IN  /\ \A k \in 0..7 : RL(W, be, 2 * k) = <<RW(W, be, 2 * k), RW(W, be, 2 * k + 1)>>
        /\ unit.op = "RL" =>
             /\ RL(W, be, n) = v
             /\ RW(W, be, n) = v[1]
             /\ RW(W, be, n + 1) = v[2]
             /\ \A m \in 0..15 \ {n, n + 1} : RW(W, be, m) = RW(P, be, m)
        /\ unit.op = "RW" =>
             /\ RW(W, be, n) = v
             /\ \A m \in 0..15 \ {n} : RW(W, be, m) = RW(P, be, m)
             /\ LET e == n - (n % 2)
                IN  RL(W, be, e) = IF n % 2 = 0 THEN <<v, RL(P, be, e)[2]>>
                                   ELSE <<RL(P, be, e)[1], v>>
             /\ \A k \in 0..7 : 2 * k # n - (n % 2) => RL(W, be, 2 * k) = RL(P, be, 2 * k)

\* on a little-endian host a long whose halves differ was written to RR0 and
\* then its low word R1 was overwritten
C19_Witness ==
    /\ ~unit.be
    /\ unit.op = "RW"
    /\ unit.in = <<1, 43981>>
    /\ RL(unit.pre, unit.be, 0) = <<4660, 22136>>
    /\ RL(unit.W, unit.be, 0) = <<4660, 43981>>


\* the positions of the entries of a table that cover an opcode value
Covering(table, op) ==
    {i \in 1..Len(table) : /\ table[i].beg <= op
                           /\ op <= table[i].end
                           /\ (op - table[i].beg) % table[i].step = 0}

\* C20: after the initialisation of the tables, for every opcode value that
\* one or more authoring entries cover (beg <= op <= end, op = beg + k*step),
\* exec[op] is the index of the last such entry in table order.
C20_LastEntryWins ==
    unit.op = "init_tables" =>
        \A op \in 0..MaxOp :
            Covering(unit.in, op) # {} =>
                \E i \in Covering(unit.in, op) :
                    /\ \A j \in Covering(unit.in, op) : j <= i
                    /\ unit.out[op] = i - 1

\* an opcode covered by the first and the last of three entries, the middle
\* one stepping over it, got the index of the last
C20_Witness ==
    /\ unit.op = "init_tables"
    /\ Len(unit.in) = 3
    /\ Covering(unit.in, 1) = {1, 3}
    /\ unit.in[2].step = 2 /\ unit.in[2].beg = 0 /\ unit.in[2].end = 2
    /\ unit.out[1] = 2
    /\ unit.out[0] = 1


\* the number of 1 bits of a number
RECURSIVE Ones(_)
Ones(b) == IF b = 0 THEN 0 ELSE (b % 2) + Ones(b \div 2)

\* the flags the specification gives a byte value: Z iff it is 0, S iff its
\* bit 7 is 1, PV iff the number of its 1 bits is even, and nothing else
ZspClaimed ==
    [b \in 0..255 |-> (IF b = 0 THEN F_Z ELSE 0) + (IF b >= 128 THEN F_S ELSE 0)
                        + (IF Ones(b) % 2 = 0 THEN F_PV ELSE 0)]

\* C21: for every byte value b, zsp[b] has Z set iff b = 0, S set iff bit 7
\* of b is 1, PV set iff b has an even number of 1 bits, and no other bit of
\* the FCW set: it is the sum of exactly those of the three flags.
C21_ZspTable ==
    unit.op = "init_tables" => \A b \in 0..255 : unit.zsp[b] = ZspClaimed[b]

\* the table was built: the entry of 0 has Z and PV, that of 128 has S alone,
\* that of 129 has S and PV, that of 1 has nothing
C21_Witness ==
    /\ unit.op = "init_tables"
    /\ unit.zsp[0] = F_Z + F_PV
    /\ unit.zsp[128] = F_S
    /\ unit.zsp[129] = F_S + F_PV
    /\ unit.zsp[1] = 0


\* C22: get_operand(n) is idempotent within an instruction: the first call
\* on an invalid slot n reads one program word at pc, advances pc by 2 and
\* sets bit n of op_valid; every later call for the same n returns the same
\* value, reads nothing and leaves pc and op_valid as they are.
C22_OperandIdempotent ==
    unit.op = "get_operand" =>
        LET n == unit.in[1]
            P == unit.pre
            Q == unit.out
        IN  /\ unit.n = 1 =>
                 /\ ~Has(P.op_valid, 2^n)
                 /\ Q.bus = Append(P.bus, [op |-> "F", addr |-> P.pc, val |-> unit.in[2]])
                 /\ Q.op[n + 1] = unit.in[2]
                 /\ Q.pc = P.pc + 2
                 /\ Q.op_valid = P.op_valid + 2^n
            /\ unit.n > 1 =>
                 /\ Q.op[n + 1] = unit.in[2]
                 /\ Q.bus = P.bus
                 /\ Q.pc = P.pc
                 /\ Q.op_valid = P.op_valid

\* operand 2 was fetched and then asked for twice more, the program holding
\* another word at pc
C22_Witness ==
    /\ unit.op = "get_operand"
    /\ unit.n = 3
    /\ unit.in = <<2, 43981>>
    /\ unit.out.op[3] = 43981
    /\ read_word(unit.out.data, unit.out.pc) = 43982
    /\ Len(unit.out.bus) = 1


\* the address the specification gives an access to addr: on the Z8001 with
\* SEG clear the offset of addr in the segment of pc, else addr itself
Effective(P, addr) ==
    IF segmented /\ ~Has(P.fcw, F_SEG)
    THEN (addr % W16) + ((P.pc \div W16) % 128) * W16
    ELSE addr

\* C23: on the Z8001 with FCW.SEG clear every access through the read and
\* write helpers uses (addr & 0xFFFF) | (pc & 0x7F0000); with SEG set, and
\* always on the Z8002, it uses addr unchanged.  (A byte read presents that
\* address, the word helpers the word it lies in, a long its two words
\* within the segment.)
C23_NonSegAddress ==
    unit.op = "access" =>
        LET h == unit.in[1]
            e == Effective(unit.pre, unit.in[2])
            b == unit.out.bus
        IN  /\ Len(b) = IF h \in {"RDMEM_L", "WRMEM_L"} THEN 2 ELSE 1
            /\ b[1].addr = IF h = "RDMEM_B" THEN e ELSE e - (e % 2)
            /\ Len(b) = 2 => b[2].addr = addr_add(b[1].addr, 2)
            /\ h = "WRMEM_W" => read_word(unit.out.data, e) = 4660
            /\ h = "WRMEM_B" => Byte(unit.out.data, e) = 90
            /\ h = "WRMEM_L" => read_word(unit.out.data, e) = 4660

\* on the Z8001 with SEG clear a word was written to an address of segment 2
\* while pc was in segment 127: it went to segment 127
C23_Witness ==
    /\ unit.op = "access"
    /\ segmented
    /\ ~Has(unit.pre.fcw, F_SEG)
    /\ unit.in = <<"WRMEM_W", 135168>>
    /\ unit.pre.pc \div W16 = 127
    /\ unit.out.bus[1].addr = 127 * W16 + 4096
    /\ read_word(unit.out.data, 127 * W16 + 4096) = 4660


\* C24 (as the specification states it): an opcode fetch made by step() or
\* run() while bit 15 of refresh is set increments the low 8 bits of refresh;
\* while the bit is clear the fetch leaves refresh as it is.  (Observed on
\* instructions that do not themselves load the refresh register.)
C24_RefreshCount ==
    (Boundary /\ Executed(last.bus) # {} /\ LDCTLR \notin Executed(last.bus)) =>
        cpu.refresh = IF last.mid.refresh >= 32768
                      THEN (last.mid.refresh - (last.mid.refresh % 256))
                             + ((last.mid.refresh + 1) % 256)
                      ELSE last.mid.refresh


\* port addresses read to compare two states of the ports
ProbePorts == {0, 1, 2, 3, 16, 32, 33, 48}

\* the last operation on the ports was a write
IoWrote == unit.op \in {"io_write_word", "io_write_byte"}

\* a write in one mode leaves every read of the other mode as it was; a write
\* to the fixed port or to an undefined port changes nothing; the fixed and
\* the undefined ports read as AA00 / DEAD (normal) and BEEF (special)
IoIsolation ==
    /\ IoWrote => \A a \in ProbePorts :
                    IOPorts_read_word(unit.io, a, 1 - unit.in[3])
                      = IOPorts_read_word(unit.pre, a, 1 - unit.in[3])
    /\ (IoWrote /\ LoopbackPort(unit.in[1], unit.in[3]) = "none") => unit.io = unit.pre
    /\ IOPorts_read_word(unit.io, 16, 0) = 43520
    /\ IOPorts_read_word(unit.io, 48, 0) = 57005
    /\ IOPorts_read_word(unit.io, 32, 0) = 57005
    /\ \A a \in ProbePorts \ {32, 33} : IOPorts_read_word(unit.io, a, 1) = 48879

\* C25 (as the specification states it): after any sequence of I/O reads and
\* writes a word read of a loopback port (normal 0 and 2, special 0x20)
\* returns the last word written to that port in the same mode (initially
\* 1234, 0000, 5678); a write in one mode never changes a read of the other;
\* the fixed and the undefined ports ignore writes and read as fixed values.
C25_LastWordWritten ==
    /\ IOPorts_read_word(unit.io, 0, 0) = unit.lw.data
    /\ IOPorts_read_word(unit.io, 2, 0) = unit.lw.ctrl
    /\ IOPorts_read_word(unit.io, 32, 1) = unit.lw.sio
    /\ IoIsolation

\* C25 (amended): a word read of a loopback port returns the port's register:
\* initially 1234, 0000, 5678; a word write to the port in the same mode
\* replaces it, a byte write to one of the port's two addresses replaces the
\* half that address selects (even: high, odd: low) and keeps the other, and
\* nothing else changes it; reads change nothing; the isolation of the modes
\* and the fixed values are as stated.
C25_PortRegister ==
    LET p   == LoopbackPort(unit.in[1], unit.in[3])
        rd(io, q) == CASE q = "data" -> IOPorts_read_word(io, 0, 0)
                       [] q = "ctrl" -> IOPorts_read_word(io, 2, 0)
                       [] q = "sio" -> IOPorts_read_word(io, 32, 1)
        frame(q) == rd(unit.io, q) = rd(unit.pre, q)
    IN  /\ unit.op = "none" =>
             rd(unit.io, "data") = 4660 /\ rd(unit.io, "ctrl") = 0 /\ rd(unit.io, "sio") = 22136
        /\ unit.op = "io_write_word" =>
             /\ p # "none" => rd(unit.io, p) = unit.in[2]
             /\ \A q \in {"data", "ctrl", "sio"} \ {p} : frame(q)
        /\ unit.op = "io_write_byte" =>
             /\ p # "none" =>
                  rd(unit.io, p) = IF unit.in[1] % 2 = 0
                                   THEN unit.in[2] * 256 + (rd(unit.pre, p) % 256)
                                   ELSE (rd(unit.pre, p) \div 256) * 256 + unit.in[2]
             /\ \A q \in {"data", "ctrl", "sio"} \ {p} : frame(q)
        /\ unit.op = "io_read_word" =>
             /\ unit.io = unit.pre
             /\ unit.out = IF LoopbackPort(unit.in[1], unit.in[2]) = "none"
                           THEN (IF unit.in[2] = 1 THEN 48879
                                 ELSE IF Even(unit.in[1]) = 16 THEN 43520 ELSE 57005)
                           ELSE rd(unit.io, LoopbackPort(unit.in[1], unit.in[2]))
        /\ IoIsolation

\* a word was written to normal port 0, then a byte to its odd address, and
\* the port was read: the read returns the word with its low half replaced
C25_Witness ==
    /\ unit.op = "io_read_word"
    /\ unit.n = 3
    /\ unit.in = <<0, 0>>
    /\ unit.lw.data = 43981
    /\ unit.out = 43810


\* C26 (as the specification states it): a run() given no cycle limit
\* (max_cycles < 0) returns only once the CPU has halted, however many cycles
\* that takes.
C26_Unlimited ==
    (last.call \in {"run_body", "run_spin"} /\ last.budget < 0 /\ ~inrun) => cpu.halt


\* two machines agree on everything but ppc and icount
SameMachine(a, b) ==
    /\ \A f \in (DOMAIN Constructed) \ {"ppc", "icount"} : a[f] = b[f]
    /\ a.data = b.data
    /\ a.bus = b.bus

\* the machine after k instruction boundaries taken by k calls of step()
RECURSIVE BySteps(_, _, _)
BySteps(s, k, segt) ==
    IF k = 0 THEN s ELSE BySteps(step([s EXCEPT !.bus = <<>>], segt), k - 1, segt)

\* the machine after k passes of the loop of a run() with budget enough
RECURSIVE ByRun(_, _, _)
ByRun(s, k, segt) ==
    IF k = 0 THEN s ELSE ByRun(run_body([s EXCEPT !.bus = <<>>], segt), k - 1, segt)

\* C27: step() and run() implement the same machine: from the same state, k
\* instructions executed by k calls of step() and by k passes of the loop of
\* one run() leave the same pc, registers, FCW, irq_req, halt, op_valid,
\* total_cycles and memory (all but ppc and icount).  Checked for the call
\* that led to each state (k = 1) and for two instructions from every state
\* a reset() or an edit by the host leaves a wired device in (k = 2).
C27_StepRunSame ==
    /\ (Attached(cpu) /\ last.call \in {"reset", "host"}) =>
         SameMachine(BySteps(Mach(cpu, data), 2, FALSE),
                     ByRun(run_enter(Mach(cpu, data), 1000), 2, FALSE))
    /\ (last.call = "step" /\ Attached(last.pre)) =>
         SameMachine([Mach(cpu, data) EXCEPT !.bus = last.bus],
                     run_body(run_enter(last.pre, 1000), last.arg = 1))
    /\ (last.call = "run_body") =>
         SameMachine([Mach(cpu, data) EXCEPT !.bus = last.bus], step(last.pre, last.arg = 1))

\* a step() that serviced a request and executed an instruction, from a
\* state from which a pass of run() does the same
C27_Witness ==
    /\ last.call = "step"
    /\ Attached(last.pre)
    /\ last.pre.irq_req # {}
    /\ Executed(last.bus) = {LDSP}
    /\ cpu.total_cycles > last.pre.total_cycles
    /\ run_body(run_enter(last.pre, 1000), FALSE).total_cycles = cpu.total_cycles
    /\ run_body(run_enter(last.pre, 1000), FALSE).pc = cpu.pc


\* C28: reset() performs no bus access and leaves FCW and PC cleared; the
\* reset FCW and PC are read from program memory when RESET is serviced at
\* the first instruction boundary of the next step() or run(), so the reset
\* vector as it is in memory then, changed after reset() or not, determines
\* the FCW and PC the CPU starts with.
C28_ResetDeferred ==
    /\ last.call = "reset" =>
         /\ last.bus = <<>>
         /\ cpu.pc = 0 /\ cpu.fcw = 0
         /\ "RESET" \in cpu.irq_req
    /\ (Boundary /\ "RESET" \in last.pre.irq_req) =>
         /\ Len(IrqBus) >= 2
         /\ IrqBus[1] = [op |-> "R", addr |-> 2, val |-> read_word(last.pre.data, 2)]
         /\ last.mid.fcw = read_word(last.pre.data, 2)
         /\ last.mid.pc = ResetTarget(last.pre.data)

\* the entry point was written over the reset vector after reset(), and the
\* step() that followed started the CPU at the new entry point, not at the
\* one memory held at reset()
C28_Witness ==
    /\ Boundary
    /\ "RESET" \in last.pre.irq_req
    /\ ResetTarget(last.resetdata) # ResetTarget(last.pre.data)
    /\ ResetTarget(last.pre.data) = HandlerAt
    /\ last.mid.pc = HandlerAt
    /\ Executed(last.bus) = {NOP}
    /\ cpu.pc = HandlerAt + 2

\* the causes the claim names
Lossless == {"EPU", "TRAP", "SYSCALL", "SEGTRAP", "NMI"}

C30_RunTerminates ==
    /\ [](last.call = "run_body" =>
            /\ last.mid.halt => cpu.icount = 0
            /\ ~last.mid.halt =>
                 /\ cpu.icount < last.pre.icount
                 /\ At(last.bus, "X") # {})
    /\ [](inrun => Executed(run_body(Mach(cpu, data), FALSE).bus) \subseteq Decoded)
    /\ inrun ~> ~inrun

\* a pass that started with a request pending and nothing serviceable executed
\* an instruction, and the loop has ended
C30_Witness ==
    /\ last.call = "run_body"
    /\ ~inrun
    /\ last.pre.irq_req # {}
    /\ Serviceable(last.pre) = {}
    /\ ~last.pre.halt
    /\ cpu.icount < last.pre.icount

====
